---- MODULE Spec2Model ----
(***************************************************************************)
(* A model of piq: the layered query engine (the collection-based builder  *)
(* of packages/core/src/query.ts and the resolver-based builder of         *)
(* packages/piqit/src/query.ts), the flattener (undot.ts) and the two      *)
(* path-pattern compilers (core/src/path-pattern.ts, resolvers/src/        *)
(* markdown.ts).                                                           *)
(***************************************************************************)
EXTENDS Integers, Sequences, FiniteSets, TLC

\* ------------------------------------------------------------------ bounds
NItems == 3
MaxExecCalls == 2
MaxOps == 4
MaxPiqOps == 3
MaxBuilders == 2
MaxTokens == 3
MaxPieces == 3
MaxPathLen == 3
MaxLines == 3
MaxPathList == 2
MaxScanPieces == 2
MaxConcurrency == 1

\* ------------------------------------------------------- program constants
DefaultConcurrency == 50

\* ------------------------------------------------------------------ helpers
None == <<>>
Some(x) == <<x>>
IsSome(o) == o # <<>>
Get(o) == o[1]

EmptyMap == <<>>

\* { ...a, ...b }
Spread(a, b) ==
  [k \in (DOMAIN a) \cup (DOMAIN b) |-> IF k \in DOMAIN b THEN b[k] ELSE a[k]]

Restrict(obj, keys) == [k \in (DOMAIN obj) \cap keys |-> obj[k]]

RECURSIVE SeqToSet(_)
SeqToSet(s) == IF s = <<>> THEN {} ELSE {Head(s)} \cup SeqToSet(Tail(s))

\* 1-based position of x in s (0 when absent)
RECURSIVE IndexOf(_, _)
IndexOf(s, x) ==
  IF s = <<>> THEN 0
  ELSE IF Head(s) = x THEN 1
  ELSE LET r == IndexOf(Tail(s), x) IN IF r = 0 THEN 0 ELSE r + 1

\* ------------------------------------------------------------ the collection
Items == 1..NItems

YearOf(i) == IF i = 1 THEN "2023" ELSE "2024"
SlugNames == <<"s1", "s2", "s3", "s4", "s5", "s6">>
ParamsOf(i) == [year |-> YearOf(i), slug |-> SlugNames[i]]

StatusVals == {"draft", "published"}

BodyOf(i) == [html |-> SlugNames[i]]

\* arguments the callers pass
SearchArgs == { [year |-> "2024"], [slug |-> "s1"], [year |-> "2023", slug |-> "s1"] }
FilterArgs == { [status |-> "published"], [lang |-> "en"], [status |-> "draft", lang |-> "en"] }
SelectArgs ==
  { [search |-> {"slug"}, meta |-> {}, body |-> {}],
    [search |-> {}, meta |-> {"status"}, body |-> {}],
    [search |-> {"slug"}, meta |-> {"lang"}, body |-> {"html"}] }

VARIABLES
  \* the content behind the resolvers and the collection's configuration
  meta,               \* item -> its metadata block
  hasMetaResolver,    \* collection.metaResolver is defined
  \* core QueryBuilder fields
  searchConstraints,  \* None | Some("*") | Some(map)
  filterConstraints,  \* None | Some(map)
  selectSpec,         \* None | Some([search, meta, body])
  metaCache,          \* None | Some(map item -> meta)
  \* the running terminal call of the core builder
  pc,                 \* position of the running call ("idle" when none)
  mode,               \* "exec" | "single" | "stream"
  paths,              \* result of executeSearch
  pending,            \* items whose awaited resolution has not completed
  filtered,           \* executeFilter's array, in push order
  rows,               \* item -> row under construction in resolveSelected
  outcome,            \* what the last terminal call gave its caller
  lastResult,         \* the rows the last terminal call returned / yielded
  \* Semaphore and stream()
  permits, queue, concurrency, scanIdx, cur, failing,
  \* bookkeeping of the run
  callId, ops, cacheCall, staleRead, metaReads, inflight, resolvedItems,
  execResult          \* the rows exec() had just returned when stream() was called, else None

VARIABLES
  \* piqit QueryBuilder objects, and the terminal call running on one of them
  builders,     \* the builder objects created so far (from() made the first)
  pqTarget,     \* the builder the last terminal call ran on
  pqMode,       \* "exec" | "single" | "execOrThrow" | "stream"
  pqPc,         \* "idle" | "yield" (stream suspended at yield)
  pqOutcome,    \* what the last terminal call gave its caller
  pqRaw,        \* the namespaced rows resolver.resolve returned
  pqRawItems,   \* the item behind each of them
  pqRows,       \* the flattened rows of exec()
  pqGiven,      \* the rows handed to the caller so far
  pqResolved,   \* items whose file the resolver read in this call
  pqEnum,       \* items the scan of this call enumerated
  pqOps

piqVars == <<builders, pqTarget, pqMode, pqPc, pqOutcome, pqRaw, pqRawItems, pqRows,
             pqGiven, pqResolved, pqEnum, pqOps>>

VARIABLES
  \* one pattern, one params record, and the round trip made with them
  patPattern,   \* the pattern string
  patParams,    \* the params record handed to build
  patImpl,      \* "core" | "markdown": whose compilePattern is used
  patPc,        \* "start" | "built" | "threw" | "matched"
  patBuilt,     \* what build returned
  patPath,      \* the path handed to match on its own
  patValid,     \* what the validation regex said of it, None before the test
  patMatched,    \* what match returned for it
  patConstraints, \* the scan constraints handed to the resolver: None for undefined
  patListed,    \* whether the resolver enumerated the file at patPath, None before
  fmContent,    \* the lines of a file
  fmOut,        \* what reading its frontmatter gave, None before the call
  exPaths,      \* a select path list
  exNs,         \* the namespaced result it is expanded against
  exOut         \* the successive expansions of the list

patVars == <<patPattern, patParams, patImpl, patPc, patBuilt, patPath, patValid, patMatched,
             patConstraints, patListed>>
fmVars == <<fmContent, fmOut>>
exVars == <<exPaths, exNs, exOut>>

coreBuilder == <<searchConstraints, filterConstraints, selectSpec>>
coreCall == <<pc, mode, paths, pending, filtered, rows, outcome, lastResult>>
coreStream == <<permits, queue, concurrency, scanIdx, cur, failing, inflight, resolvedItems>>
coreBook == <<callId, ops, cacheCall, staleRead, metaReads, execResult>>
coreVars == <<meta, hasMetaResolver, coreBuilder, metaCache, coreCall, coreStream, coreBook>>

vars == <<coreVars, piqVars, patVars, fmVars, exVars, exVars>>

\* the WILDCARD marker "*" (a value distinct from every constraint map)
Wildcard == [wildcard |-> "*"]

\* ----------------------------------------------------------------- resolvers
\* metaResolver.resolve(path, keys): the requested fields of the item's block
ResolveMeta(i, keys) == IF keys = {} THEN meta[i] ELSE Restrict(meta[i], keys)

\* bodyResolver.resolve(path, keys)
ResolveBody(i, keys) == Restrict(BodyOf(i), keys)

\* globResolver's matchesConstraints
matchesConstraints(params, constraints) ==
  \A key \in DOMAIN constraints :
     key \in DOMAIN params /\ params[key] = constraints[key]

\* searchResolver.search(constraints): ids in enumeration order
RECURSIVE SearchFrom(_, _)
SearchFrom(i, constraints) ==
  IF i > NItems THEN <<>>
  ELSE IF IsSome(constraints) /\ ~matchesConstraints(ParamsOf(i), Get(constraints))
       THEN SearchFrom(i + 1, constraints)
       ELSE <<i>> \o SearchFrom(i + 1, constraints)

\* QueryBuilder.executeSearch / getScanner: "*" and null both become undefined
executeSearch ==
  SearchFrom(1, IF searchConstraints = None \/ searchConstraints = Some(Wildcard)
                THEN None ELSE searchConstraints)

\* ------------------------------------------------- core QueryBuilder: builder
\* QueryBuilder.search(constraints): replaces the constraints, returns this
CoreSearch(c) ==
  /\ pc = "idle" /\ ops < MaxOps
  /\ searchConstraints' = Some(c)
  /\ ops' = ops + 1
  /\ UNCHANGED <<piqVars, patVars, fmVars, exVars, meta, hasMetaResolver, filterConstraints, selectSpec, metaCache,
                 coreCall, coreStream, callId, cacheCall, staleRead, metaReads>>
  /\ UNCHANGED execResult

\* a filter() that stores the constraints whatever the collection has and
\* leaves the missing resolver to be found when the query runs
CoreFilterDeferred(c) ==
  /\ pc = "idle" /\ ops < MaxOps
  /\ ops' = ops + 1
  /\ filterConstraints' = Some(c)
  /\ UNCHANGED <<piqVars, patVars, fmVars, exVars, meta, hasMetaResolver, searchConstraints, selectSpec, metaCache,
                 coreCall, coreStream, callId, cacheCall, staleRead, metaReads>>
  /\ UNCHANGED execResult

\* QueryBuilder.filter(constraints): throws without a metaResolver, else replaces
CoreFilter(c) ==
  /\ pc = "idle" /\ ops < MaxOps
  /\ ops' = ops + 1
  /\ IF ~hasMetaResolver
     THEN /\ outcome' = "Error: Cannot use filter() without a metaResolver"
          /\ UNCHANGED filterConstraints
     ELSE /\ filterConstraints' = Some(c)
          /\ UNCHANGED outcome
  /\ UNCHANGED <<piqVars, patVars, fmVars, exVars, meta, hasMetaResolver, searchConstraints, selectSpec, metaCache,
                 pc, mode, paths, pending, filtered, rows, lastResult,
                 coreStream, callId, cacheCall, staleRead, metaReads>>
  /\ UNCHANGED execResult

\* QueryBuilder.select(spec): stores the spec on this builder and returns this
CoreSelect(spec) ==
  /\ pc = "idle" /\ ops < MaxOps
  /\ selectSpec' = Some(spec)
  /\ ops' = ops + 1
  /\ UNCHANGED <<piqVars, patVars, fmVars, exVars, meta, hasMetaResolver, searchConstraints, filterConstraints, metaCache,
                 coreCall, coreStream, callId, cacheCall, staleRead, metaReads>>
  /\ UNCHANGED execResult

\* ---------------------------------------------------- core QueryBuilder: exec
filterKeys == IF IsSome(filterConstraints) THEN DOMAIN Get(filterConstraints) ELSE {}
selectMetaKeys == IF IsSome(selectSpec) THEN Get(selectSpec).meta ELSE {}
selectBodyKeys == IF IsSome(selectSpec) THEN Get(selectSpec).body ELSE {}
selectSearchKeys == IF IsSome(selectSpec) THEN Get(selectSpec).search ELSE {}

\* getRequiredMetaKeys: the union, or null (the empty set here) when empty
getRequiredMetaKeys == filterKeys \cup selectMetaKeys

needsSearch == ~IsSome(selectSpec) \/ selectSearchKeys # {}
needsMeta == selectMetaKeys # {}
needsBody == selectBodyKeys # {}

\* matchesFilter / the every() of executeFilter: strict equality on every key;
\* a key missing from the resolved block reads as undefined
matchesFilter(m, keys) ==
  \A key \in keys : key \in DOMAIN m /\ m[key] = Get(filterConstraints)[key]

\* pickFields(obj, fields)
pickFields(obj, fields) == IF fields = {} THEN obj ELSE Restrict(obj, fields)

\* this.metaCache?.get(path) is defined
CacheHit(i) == IsSome(metaCache) /\ i \in DOMAIN Get(metaCache)

\* filtered.push(path) for the items of `is` that match, in the order given
RECURSIVE PushMatching(_, _, _)
PushMatching(acc, is, metaOf) ==
  IF is = <<>> THEN acc
  ELSE PushMatching(IF matchesFilter(metaOf[Head(is)], filterKeys)
                    THEN Append(acc, Head(is)) ELSE acc,
                    Tail(is), metaOf)

\* exec() / single().exec() up to the first await that suspends
CoreExecStart(m) ==
  /\ pc = "idle" /\ callId < MaxExecCalls
  /\ callId' = callId + 1
  /\ mode' = m
  /\ paths' = executeSearch
  /\ filtered' = <<>>
  /\ rows' = <<>>
  /\ metaReads' = [i \in Items |-> 0]
  /\ outcome' = "running"
  /\ lastResult' = <<>>
  /\ IF getRequiredMetaKeys # {} /\ IsSome(filterConstraints) /\ selectMetaKeys # {}
        /\ hasMetaResolver
     THEN \* preResolveMeta: a new Map, one resolution per path in flight
          /\ metaCache' = Some(EmptyMap)
          /\ cacheCall' = callId + 1
          /\ pending' = SeqToSet(executeSearch)
          /\ pc' = IF executeSearch = <<>> THEN "executeFilter" ELSE "preResolve"
     ELSE /\ UNCHANGED <<metaCache, cacheCall>>
          /\ pending' = {}
          /\ pc' = "executeFilter"
  /\ UNCHANGED <<piqVars, patVars, fmVars, exVars, meta, hasMetaResolver, coreBuilder, coreStream, ops, staleRead>>
  /\ UNCHANGED execResult

\* one resolution of preResolveMeta completes: this.metaCache.set(path, meta)
PreResolveDone(i) ==
  /\ pc = "preResolve" /\ i \in pending
  /\ metaCache' = Some([j \in (DOMAIN Get(metaCache)) \cup {i} |->
                          IF j = i THEN ResolveMeta(i, getRequiredMetaKeys)
                          ELSE Get(metaCache)[j]])
  /\ metaReads' = [metaReads EXCEPT ![i] = @ + 1]
  /\ pending' = pending \ {i}
  /\ pc' = IF pending = {i} THEN "executeFilter" ELSE "preResolve"
  /\ UNCHANGED <<piqVars, patVars, fmVars, exVars, meta, hasMetaResolver, coreBuilder, mode, paths, filtered, rows,
                 outcome, lastResult, coreStream, callId, ops, cacheCall, staleRead>>
  /\ UNCHANGED execResult

\* executeFilter up to its awaits: cache hits are checked and pushed at once,
\* in index order; the others wait for metaResolver.resolve
ExecuteFilter ==
  /\ pc = "executeFilter"
  /\ IF ~IsSome(filterConstraints) \/ ~hasMetaResolver
     THEN /\ filtered' = paths
          /\ pending' = {}
          /\ pc' = "resolveSelected"
          /\ UNCHANGED staleRead
     ELSE LET hits == SelectSeq(paths, CacheHit)
              misses == {i \in SeqToSet(paths) : ~CacheHit(i)}
          IN /\ filtered' = PushMatching(<<>>, hits, IF IsSome(metaCache) THEN Get(metaCache) ELSE EmptyMap)
             /\ staleRead' = (staleRead \/ (hits # <<>> /\ cacheCall # callId))
             /\ pending' = misses
             /\ pc' = IF misses = {} THEN "resolveSelected" ELSE "filterWait"
  /\ UNCHANGED <<piqVars, patVars, fmVars, exVars, meta, hasMetaResolver, coreBuilder, metaCache, mode, paths, rows,
                 outcome, lastResult, coreStream, callId, ops, cacheCall, metaReads>>
  /\ UNCHANGED execResult

\* one awaited metaResolver.resolve(path, filterKeys) of executeFilter completes
FilterDone(i) ==
  /\ pc = "filterWait" /\ i \in pending
  /\ filtered' = IF matchesFilter(ResolveMeta(i, filterKeys), filterKeys)
                 THEN Append(filtered, i) ELSE filtered
  /\ metaReads' = [metaReads EXCEPT ![i] = @ + 1]
  /\ pending' = pending \ {i}
  /\ pc' = IF pending = {i} THEN "resolveSelected" ELSE "filterWait"
  /\ UNCHANGED <<piqVars, patVars, fmVars, exVars, meta, hasMetaResolver, coreBuilder, metaCache, mode, paths, rows,
                 outcome, lastResult, coreStream, callId, ops, cacheCall, staleRead>>
  /\ UNCHANGED execResult

\* the synchronous part of one resolveSelected callback: params, and the
\* cached meta when there is one
SelectedRow(i) ==
  [path |-> i,
   search |-> IF needsSearch THEN pickFields(ParamsOf(i), selectSearchKeys) ELSE EmptyMap,
   meta |-> IF needsMeta /\ hasMetaResolver /\ CacheHit(i)
            THEN Some(pickFields(Get(metaCache)[i], selectMetaKeys)) ELSE None,
   body |-> None]

\* resolveSelected up to its awaits
ResolveSelected ==
  /\ pc = "resolveSelected"
  /\ rows' = [i \in SeqToSet(filtered) |-> SelectedRow(i)]
  /\ staleRead' = (staleRead \/ (cacheCall # callId /\ needsMeta /\ hasMetaResolver
                                  /\ \E j \in SeqToSet(filtered) : CacheHit(j)))
  /\ pending' = IF (needsMeta /\ hasMetaResolver) \/ needsBody THEN SeqToSet(filtered) ELSE {}
  /\ pc' = "resolveWait"
  /\ UNCHANGED <<piqVars, patVars, fmVars, exVars, meta, hasMetaResolver, coreBuilder, metaCache, mode, paths, filtered,
                 outcome, lastResult, coreStream, callId, ops, cacheCall, metaReads>>
  /\ UNCHANGED execResult

\* the awaited metaResolver.resolve(path, selectSpec.meta) of one callback completes
ResolveMetaDone(i) ==
  /\ pc = "resolveWait" /\ i \in pending
  /\ needsMeta /\ hasMetaResolver /\ rows[i].meta = None
  /\ rows' = [rows EXCEPT ![i].meta =
                Some(pickFields(ResolveMeta(i, selectMetaKeys), selectMetaKeys))]
  /\ metaReads' = [metaReads EXCEPT ![i] = @ + 1]
  /\ pending' = IF needsBody THEN pending ELSE pending \ {i}
  /\ UNCHANGED <<piqVars, patVars, fmVars, exVars, meta, hasMetaResolver, coreBuilder, metaCache, pc, mode, paths, filtered,
                 outcome, lastResult, coreStream, callId, ops, cacheCall, staleRead>>
  /\ UNCHANGED execResult

\* the awaited bodyResolver.resolve(path, selectSpec.body) of one callback completes
ResolveBodyDone(i) ==
  /\ pc = "resolveWait" /\ i \in pending
  /\ needsBody /\ (needsMeta /\ hasMetaResolver => rows[i].meta # None)
  /\ rows' = [rows EXCEPT ![i].body =
                Some(pickFields(ResolveBody(i, selectBodyKeys), selectBodyKeys))]
  /\ pending' = pending \ {i}
  /\ UNCHANGED <<piqVars, patVars, fmVars, exVars, meta, hasMetaResolver, coreBuilder, metaCache, pc, mode, paths, filtered,
                 outcome, lastResult, coreStream, callId, ops, cacheCall, staleRead,
                 metaReads>>
  /\ UNCHANGED execResult

\* Promise.all of resolveSelected resolves (by index of filteredPaths); exec returns,
\* or SingleQueryBuilderImpl.exec checks the length
ExecReturn ==
  /\ pc = "resolveWait" /\ pending = {}
  /\ LET results == [k \in 1..Len(filtered) |-> rows[filtered[k]]]
     IN IF mode = "single"
        THEN IF Len(results) = 0
             THEN outcome' = "Error: No results found" /\ lastResult' = <<>>
             ELSE IF Len(results) > 1
             THEN outcome' = "Error: Expected single result" /\ lastResult' = <<>>
             ELSE outcome' = "row" /\ lastResult' = <<results[1]>>
        ELSE outcome' = "rows" /\ lastResult' = results
  /\ pc' = "idle"
  /\ filtered' = <<>> /\ rows' = <<>>
  /\ UNCHANGED <<piqVars, patVars, fmVars, exVars, meta, hasMetaResolver, coreBuilder, metaCache, mode, paths, pending,
                 coreStream, callId, ops, cacheCall, staleRead, metaReads>>
  /\ UNCHANGED execResult

\* ------------------------------------------------------------------ Semaphore
\* an acquire() that hands out a permit whatever the count
CanAcquireAlways == TRUE

\* Semaphore.acquire(): TRUE when a permit is taken at once
CanAcquire == permits > 0

\* a release() that drops the permit when nobody waits
ReleasedPermitsLost == permits

\* Semaphore.release(): wake the first waiter, else give the permit back
ReleasedPermits == IF queue # <<>> THEN permits ELSE permits + 1
ReleasedQueue == IF queue # <<>> THEN Tail(queue) ELSE queue

\* -------------------------------------------------- core QueryBuilder: stream
\* where the generator waits next, once the stage `done` of the current item is over
StageAfter(done) ==
  IF done = "acquire" /\ IsSome(filterConstraints) /\ hasMetaResolver THEN "s_filter"
  ELSE IF done \in {"acquire", "filter"} /\ needsMeta /\ hasMetaResolver THEN "s_meta"
  ELSE IF done \in {"acquire", "filter", "meta"} /\ needsBody THEN "s_body"
  ELSE "s_yield"

\* resolveOne's result object before any awaited facet
StreamRow(i) ==
  [path |-> i,
   search |-> IF needsSearch THEN pickFields(ParamsOf(i), selectSearchKeys) ELSE EmptyMap,
   meta |-> None, body |-> None]

\* stream(options) and the consumer's first next(): the generator starts
CoreStreamStart(conc, fail) ==
  /\ pc = "idle" /\ callId <= MaxExecCalls
  /\ callId' = callId + 1
  /\ mode' = "stream"
  /\ concurrency' = conc
  /\ permits' = conc
  /\ queue' = <<>>
  /\ paths' = executeSearch
  /\ scanIdx' = 0
  /\ cur' = 0
  /\ failing' = fail
  /\ inflight' = 0
  /\ resolvedItems' = {}
  /\ pending' = {}
  /\ filtered' = <<>>
  /\ rows' = <<>>
  /\ metaReads' = [i \in Items |-> 0]
  /\ outcome' = "running"
  /\ lastResult' = <<>>
  /\ pc' = "s_pull"
  /\ UNCHANGED <<piqVars, patVars, fmVars, exVars, meta, hasMetaResolver, coreBuilder, metaCache, ops, cacheCall,
                 staleRead>>
  /\ execResult' = IF mode = "exec" /\ outcome = "rows" THEN Some(lastResult) ELSE None

\* for await: the scanner hands over the next path (or ends), then
\* await semaphore.acquire() and the code up to the first resolver call
StreamPull ==
  /\ pc = "s_pull"
  /\ IF scanIdx >= Len(paths)
     THEN /\ pc' = "idle" /\ outcome' = "done"
          /\ UNCHANGED <<scanIdx, cur, permits, queue, inflight, rows, lastResult>>
     ELSE LET i == paths[scanIdx + 1] IN
          /\ scanIdx' = scanIdx + 1
          /\ cur' = i
          /\ IF CanAcquire
             THEN /\ permits' = permits - 1
                  /\ inflight' = inflight + 1
                  /\ rows' = [j \in {i} |-> StreamRow(i)]
                  /\ pc' = StageAfter("acquire")
                  /\ lastResult' = IF StageAfter("acquire") = "s_yield"
                                   THEN Append(lastResult, StreamRow(i)) ELSE lastResult
                  /\ UNCHANGED <<queue, outcome>>
             ELSE /\ queue' = Append(queue, "stream")
                  /\ pc' = "s_blocked"
                  /\ UNCHANGED <<permits, inflight, rows, lastResult, outcome>>
  /\ UNCHANGED <<piqVars, patVars, fmVars, exVars, meta, hasMetaResolver, coreBuilder, metaCache, mode, paths, pending,
                 filtered, concurrency, failing, resolvedItems, coreBook>>

\* a generator that swallows the error: finally releases, the loop pulls again
StreamSkipOnError ==
  /\ permits' = ReleasedPermits
  /\ queue' = ReleasedQueue
  /\ inflight' = inflight - 1
  /\ pc' = "s_pull"
  /\ UNCHANGED <<outcome, rows, lastResult, scanIdx, cur, metaReads, resolvedItems>>

\* the error of a resolver call leaves the generator through finally
StreamThrow ==
  /\ permits' = ReleasedPermits
  /\ queue' = ReleasedQueue
  /\ inflight' = inflight - 1
  /\ pc' = "idle"
  /\ outcome' = "threw"
  /\ UNCHANGED <<rows, lastResult, scanIdx, cur, metaReads, resolvedItems>>

\* the filter check's metaResolver.resolve(path, filterKeys) completes
StreamFilterDone ==
  /\ pc = "s_filter"
  /\ IF cur \in failing
     THEN StreamThrow
     ELSE /\ metaReads' = [metaReads EXCEPT ![cur] = @ + 1]
          /\ resolvedItems' = resolvedItems \cup {cur}
          /\ IF ~matchesFilter(ResolveMeta(cur, filterKeys), filterKeys)
             THEN \* continue: finally releases, the loop pulls again
                  /\ permits' = ReleasedPermits
                  /\ queue' = ReleasedQueue
                  /\ inflight' = inflight - 1
                  /\ pc' = "s_pull"
                  /\ UNCHANGED <<rows, lastResult>>
             ELSE /\ pc' = StageAfter("filter")
                  /\ lastResult' = IF StageAfter("filter") = "s_yield"
                                   THEN Append(lastResult, rows[cur]) ELSE lastResult
                  /\ UNCHANGED <<permits, queue, inflight, rows>>
          /\ UNCHANGED <<outcome, scanIdx, cur>>
  /\ UNCHANGED <<piqVars, patVars, fmVars, exVars, meta, hasMetaResolver, coreBuilder, metaCache, mode, paths, pending,
                 filtered, concurrency, failing, callId, ops, cacheCall, staleRead>>
  /\ UNCHANGED execResult

\* resolveOne's metaResolver.resolve(path, selectSpec.meta) completes
StreamMetaDone ==
  /\ pc = "s_meta"
  /\ IF cur \in failing
     THEN StreamThrow
     ELSE LET row == [rows[cur] EXCEPT !.meta =
                        Some(pickFields(ResolveMeta(cur, selectMetaKeys), selectMetaKeys))]
          IN /\ metaReads' = [metaReads EXCEPT ![cur] = @ + 1]
             /\ resolvedItems' = resolvedItems \cup {cur}
             /\ rows' = [rows EXCEPT ![cur] = row]
             /\ pc' = StageAfter("meta")
             /\ lastResult' = IF StageAfter("meta") = "s_yield"
                              THEN Append(lastResult, row) ELSE lastResult
             /\ UNCHANGED <<permits, queue, inflight, outcome, scanIdx, cur>>
  /\ UNCHANGED <<piqVars, patVars, fmVars, exVars, meta, hasMetaResolver, coreBuilder, metaCache, mode, paths, pending,
                 filtered, concurrency, failing, callId, ops, cacheCall, staleRead>>
  /\ UNCHANGED execResult

\* resolveOne's bodyResolver.resolve(path, selectSpec.body) completes; the row is yielded
StreamBodyDone ==
  /\ pc = "s_body"
  /\ IF cur \in failing
     THEN StreamThrow
     ELSE LET row == [rows[cur] EXCEPT !.body =
                        Some(pickFields(ResolveBody(cur, selectBodyKeys), selectBodyKeys))]
          IN /\ resolvedItems' = resolvedItems \cup {cur}
             /\ rows' = [rows EXCEPT ![cur] = row]
             /\ pc' = "s_yield"
             /\ lastResult' = Append(lastResult, row)
             /\ UNCHANGED <<permits, queue, inflight, outcome, scanIdx, cur, metaReads>>
  /\ UNCHANGED <<piqVars, patVars, fmVars, exVars, meta, hasMetaResolver, coreBuilder, metaCache, mode, paths, pending,
                 filtered, concurrency, failing, callId, ops, cacheCall, staleRead>>
  /\ UNCHANGED execResult

\* the consumer asks for the next row: the generator resumes after yield,
\* finally releases the slot, the loop goes on
ConsumerNext ==
  /\ pc = "s_yield"
  /\ permits' = ReleasedPermits
  /\ queue' = ReleasedQueue
  /\ inflight' = inflight - 1
  /\ pc' = "s_pull"
  /\ UNCHANGED <<piqVars, patVars, fmVars, exVars, meta, hasMetaResolver, coreBuilder, metaCache, mode, paths, pending,
                 filtered, rows, outcome, lastResult, concurrency, scanIdx, cur, failing,
                 resolvedItems, coreBook>>

\* the consumer stops iterating: return() runs finally and ends the generator
\* and its scanner
ConsumerStop ==
  /\ pc = "s_yield"
  /\ permits' = ReleasedPermits
  /\ queue' = ReleasedQueue
  /\ inflight' = inflight - 1
  /\ pc' = "idle"
  /\ outcome' = "returned"
  /\ UNCHANGED <<piqVars, patVars, fmVars, exVars, meta, hasMetaResolver, coreBuilder, metaCache, mode, paths, pending,
                 filtered, rows, lastResult, concurrency, scanIdx, cur, failing,
                 resolvedItems, coreBook>>

\* ------------------------------------------------------- the core specification
CoreInit ==
  /\ meta \in [Items -> {[status |-> st, lang |-> "en"] : st \in StatusVals}]
  /\ hasMetaResolver \in BOOLEAN
  /\ searchConstraints = None
  /\ filterConstraints = None
  /\ selectSpec = None
  /\ metaCache = None
  /\ pc = "idle" /\ mode = "exec" /\ paths = <<>> /\ pending = {} /\ filtered = <<>>
  /\ rows = <<>> /\ outcome = "none" /\ lastResult = <<>>
  /\ permits = 0 /\ queue = <<>> /\ concurrency = 0 /\ scanIdx = 0 /\ cur = 0
  /\ failing = {} /\ inflight = 0 /\ resolvedItems = {}
  /\ callId = 0 /\ ops = 0 /\ cacheCall = 0 /\ staleRead = FALSE /\ execResult = None
  /\ metaReads = [i \in Items |-> 0]


(***************************************************************************)
(* piqit (resolver-based builder): packages/piqit/src/query.ts over the    *)
(* fileMarkdown resolver.  A dot-path is the sequence of its segments:     *)
(* "params.title" is <<"params", "title">>, "params.*" is <<"params", "*">>.*)
(***************************************************************************)
Undefined == "undefined"

\* the files of the content directory: path params, frontmatter and body of item i
PqParams(i) == [year |-> YearOf(i), title |-> SlugNames[i]]
PqFrontmatter(i) == [status |-> meta[i].status, lang |-> meta[i].lang, title |-> "Hello"]
PqBody(i) == [html |-> SlugNames[i]]

\* Object.keys order of the namespace objects the resolver builds
KeyOrder(ns) ==
  CASE ns = "params" -> <<"year", "title">>
    [] ns = "frontmatter" -> <<"status", "lang", "title">>
    [] OTHER -> <<"html">>

PqScanArgs == {[year |-> "2024"], [year |-> "2023", title |-> "s1"]}
PqSelectArgs ==
  { << <<"params", "title">> >>,
    << <<"params", "title">>, <<"frontmatter", "title">> >>,
    << <<"params", "*">>, <<"frontmatter", "*">> >>,
    << <<"params", "year">>, <<"frontmatter", "status">> >>,
    << <<"body", "html">> >> }
PqAliasArgs ==
  { << <<"slug", <<"params", "title">> >>, <<"heading", <<"frontmatter", "title">> >> >>,
    << <<"all", <<"params", "*">> >> >> }

endsWithWildcard(path) == Len(path) >= 2 /\ path[Len(path)] = "*"
getFieldName(path) == path[Len(path)]
getNamespace(path) == path[1]

\* obj is the namespaced row (depth 0) or a namespace object (depth 1); the
\* values of a namespace object are strings, on which no property is defined
RECURSIVE getByPath(_, _, _)
getByPath(obj, path, depth) ==
  IF path = <<>> THEN obj
  ELSE IF depth >= 2 THEN Undefined
  ELSE IF Head(path) \in DOMAIN obj
       THEN getByPath(obj[Head(path)], Tail(path), depth + 1)
       ELSE Undefined

ObjectKeys(ns, obj) == SelectSeq(KeyOrder(ns), LAMBDA k : k \in DOMAIN obj)

\* an expansion that keeps the wildcard path in front of what it stands for
RECURSIVE expandKeepingWildcard(_, _)
expandKeepingWildcard(pathList, namespaces) ==
  IF pathList = <<>> THEN <<>>
  ELSE LET path == Head(pathList)
           ns == getNamespace(path)
           ks == IF ns \in DOMAIN namespaces THEN ObjectKeys(ns, namespaces[ns]) ELSE <<>>
           here == IF endsWithWildcard(path)
                   THEN <<path>> \o [k \in 1..Len(ks) |-> <<ns, ks[k]>>]
                   ELSE <<path>>
       IN here \o expandKeepingWildcard(Tail(pathList), namespaces)

RECURSIVE expandWildcards(_, _)
expandWildcards(pathList, namespaces) ==
  IF pathList = <<>> THEN <<>>
  ELSE LET path == Head(pathList)
           ns == getNamespace(path)
           here == IF endsWithWildcard(path)
                   THEN IF ns \in DOMAIN namespaces
                        THEN LET ks == ObjectKeys(ns, namespaces[ns])
                             IN [k \in 1..Len(ks) |-> <<ns, ks[k]>>]
                        ELSE <<>>
                   ELSE <<path>>
       IN here \o expandWildcards(Tail(pathList), namespaces)

\* the loop of undot: result[fieldName] = value, for each expanded path in turn
RECURSIVE AssignFields(_, _, _)
AssignFields(result, expandedPaths, namespacedResult) ==
  IF expandedPaths = <<>> THEN result
  ELSE AssignFields(
         Spread(result, [f \in {getFieldName(Head(expandedPaths))} |->
                           getByPath(namespacedResult, Head(expandedPaths), 0)]),
         Tail(expandedPaths), namespacedResult)

undot(namespacedResult, selectPaths) ==
  AssignFields(EmptyMap, expandWildcards(selectPaths, namespacedResult), namespacedResult)

RECURSIVE AssignAliases(_, _, _)
AssignAliases(result, entries, namespacedResult) ==
  IF entries = <<>> THEN result
  ELSE LET alias == Head(entries)[1]
           path == Head(entries)[2]
           next == IF endsWithWildcard(path)
                   THEN AssignFields(result, expandWildcards(<<path>>, namespacedResult),
                                     namespacedResult)
                   ELSE Spread(result, [f \in {alias} |->
                                          getByPath(namespacedResult, path, 0)])
       IN AssignAliases(next, Tail(entries), namespacedResult)

undotWithAliases(namespacedResult, aliases) ==
  AssignAliases(EmptyMap, aliases, namespacedResult)

(***************************************************************************)
(* fileMarkdown(...).resolve(spec), with the path pattern {year}/{title}.md *)
(***************************************************************************)
mdNeedsFrontmatter(selectPaths) ==
  \E k \in 1..Len(selectPaths) : Len(selectPaths[k]) >= 2 /\ selectPaths[k][1] = "frontmatter"
mdNeedsBody(selectPaths) ==
  \E k \in 1..Len(selectPaths) : Len(selectPaths[k]) >= 2 /\ selectPaths[k][1] = "body"
mdNeedsParams(selectPaths) ==
  \E k \in 1..Len(selectPaths) : Len(selectPaths[k]) >= 2 /\ selectPaths[k][1] = "params"

mdMatchesFilter(frontmatter, filter) ==
  \A key \in DOMAIN filter : key \in DOMAIN frontmatter /\ frontmatter[key] = filter[key]

\* steps 1-2: the files the glob of the scan constraints finds, in scan order
RECURSIVE GlobFrom(_, _)
GlobFrom(i, scan) ==
  IF i > NItems THEN <<>>
  ELSE (IF \A k \in DOMAIN scan \cap DOMAIN PqParams(i) : PqParams(i)[k] = scan[k]
        THEN <<i>> ELSE <<>>) \o GlobFrom(i + 1, scan)

globScan(scan) == GlobFrom(1, IF IsSome(scan) THEN Get(scan) ELSE EmptyMap)

hasFilter(filter) == IsSome(filter) /\ DOMAIN Get(filter) # {}

\* step 4, one file: whether its content is read, and the row it contributes
KeepsFile(i, spec) ==
  hasFilter(spec.filter) => mdMatchesFilter(PqFrontmatter(i), Get(spec.filter))

ReadsOf(i, spec) ==
  hasFilter(spec.filter) \/ mdNeedsFrontmatter(spec.select)
    \/ (KeepsFile(i, spec) /\ mdNeedsBody(spec.select))

ResultOf(i, spec) ==
  LET withParams == IF mdNeedsParams(spec.select)
                    THEN [n \in {"params"} |-> PqParams(i)] ELSE EmptyMap
      withFront == IF mdNeedsFrontmatter(spec.select)
                   THEN Spread(withParams, [n \in {"frontmatter"} |-> PqFrontmatter(i)])
                   ELSE withParams
  IN IF mdNeedsBody(spec.select)
     THEN Spread(withFront, [n \in {"body"} |-> PqBody(i)])
     ELSE withFront

\* the items whose rows resolve(spec) returns, in the order it pushes them
resolveItems(spec) == SelectSeq(globScan(spec.scan), LAMBDA i : KeepsFile(i, spec))

resolveReads(spec) == {i \in SeqToSet(globScan(spec.scan)) : ReadsOf(i, spec)}

(***************************************************************************)
(* piqit QueryBuilder                                                       *)
(***************************************************************************)
NewBuilder == [scan |-> None, filter |-> None, selectPaths |-> None, selectAliases |-> None]

PiqIdle == pqPc = "idle" /\ pqOps < MaxPiqOps

pqCall == <<pqTarget, pqMode, pqPc, pqOutcome, pqRaw, pqRawItems, pqRows, pqGiven,
            pqResolved, pqEnum>>

\* scan(constraints): merged into this builder's constraints; returns this
PiqScan(b, c) ==
  /\ PiqIdle
  /\ builders' = [builders EXCEPT ![b].scan =
                    Some(Spread(IF IsSome(@) THEN Get(@) ELSE EmptyMap, c))]
  /\ pqOps' = pqOps + 1
  /\ UNCHANGED <<pqCall, coreVars, patVars, fmVars, exVars>>

PiqFilter(b, c) ==
  /\ PiqIdle
  /\ builders' = [builders EXCEPT ![b].filter =
                    Some(Spread(IF IsSome(@) THEN Get(@) ELSE EmptyMap, c))]
  /\ pqOps' = pqOps + 1
  /\ UNCHANGED <<pqCall, coreVars, patVars, fmVars, exVars>>

\* select(...paths): a new builder carrying this one's constraints
PiqSelect(b, pathList) ==
  /\ PiqIdle
  /\ Len(builders) < MaxBuilders
  /\ builders' = Append(builders, [scan |-> builders[b].scan, filter |-> builders[b].filter,
                                   selectPaths |-> Some(pathList), selectAliases |-> None])
  /\ pqOps' = pqOps + 1
  /\ UNCHANGED <<pqCall, coreVars, patVars, fmVars, exVars>>

PiqSelectAliases(b, aliases) ==
  /\ PiqIdle
  /\ Len(builders) < MaxBuilders
  /\ builders' = Append(builders, [scan |-> builders[b].scan, filter |-> builders[b].filter,
                                   selectPaths |-> None, selectAliases |-> Some(aliases)])
  /\ pqOps' = pqOps + 1
  /\ UNCHANGED <<pqCall, coreVars, patVars, fmVars, exVars>>

hasSelect(b) == IsSome(builders[b].selectPaths) \/ IsSome(builders[b].selectAliases)

getSelectPaths(b) ==
  IF IsSome(builders[b].selectPaths) THEN Get(builders[b].selectPaths)
  ELSE LET al == Get(builders[b].selectAliases)
       IN [k \in 1..Len(al) |-> al[k][2]]

QuerySpecOf(b) ==
  [scan |-> builders[b].scan, filter |-> builders[b].filter, select |-> getSelectPaths(b)]

\* the transform of exec(): one flat row per raw row
Transform(b, raw) ==
  IF IsSome(builders[b].selectAliases)
  THEN [k \in 1..Len(raw) |-> undotWithAliases(raw[k], Get(builders[b].selectAliases))]
  ELSE [k \in 1..Len(raw) |-> undot(raw[k], Get(builders[b].selectPaths))]

RawRows(b) ==
  LET its == resolveItems(QuerySpecOf(b))
  IN [k \in 1..Len(its) |-> ResultOf(its[k], QuerySpecOf(b))]

\* results[0], kept as a sequence of at most one row
FirstOf(results) == IF results = <<>> THEN <<>> ELSE <<results[1]>>

\* exec() on builder b, as far as the returned array; how the array reaches the
\* caller depends on the terminal method m
PiqTerminal(b, m) ==
  /\ PiqIdle
  /\ pqOps' = pqOps + 1
  /\ pqTarget' = b
  /\ pqMode' = m
  /\ UNCHANGED <<builders, coreVars, patVars, fmVars, exVars>>
  /\ IF ~hasSelect(b)
     THEN /\ pqOutcome' = "Error: No select specified"
          /\ pqPc' = "idle"
          /\ pqRaw' = <<>> /\ pqRawItems' = <<>> /\ pqRows' = <<>> /\ pqGiven' = <<>>
          /\ pqResolved' = {} /\ pqEnum' = {}
     ELSE LET raw == RawRows(b)
              results == Transform(b, raw)
          IN /\ pqRaw' = raw
             /\ pqRawItems' = resolveItems(QuerySpecOf(b))
             /\ pqRows' = results
             /\ pqResolved' = resolveReads(QuerySpecOf(b))
             /\ pqEnum' = SeqToSet(globScan(builders[b].scan))
             /\ CASE m = "exec" ->
                       /\ pqOutcome' = "rows" /\ pqGiven' = results /\ pqPc' = "idle"
                  [] m = "single" ->
                       /\ pqOutcome' = IF results = <<>> THEN "undefined" ELSE "row"
                       /\ pqGiven' = FirstOf(results)
                       /\ pqPc' = "idle"
                  [] m = "execOrThrow" ->
                       /\ pqOutcome' = IF results = <<>>
                                       THEN "Error: Query returned no results" ELSE "row"
                       /\ pqGiven' = FirstOf(results)
                       /\ pqPc' = "idle"
                  [] OTHER ->  \* stream(): first next() runs exec(), then the loop
                       /\ pqGiven' = FirstOf(results)
                       /\ pqOutcome' = IF results = <<>> THEN "done" ELSE "yielded"
                       /\ pqPc' = IF results = <<>> THEN "idle" ELSE "yield"

\* the consumer asks the suspended generator for the next row
PiqStreamNext ==
  /\ pqPc = "yield"
  /\ IF Len(pqGiven) < Len(pqRows)
     THEN /\ pqGiven' = Append(pqGiven, pqRows[Len(pqGiven) + 1])
          /\ UNCHANGED <<pqPc, pqOutcome>>
     ELSE /\ pqPc' = "idle" /\ pqOutcome' = "done"
          /\ UNCHANGED pqGiven
  /\ UNCHANGED <<builders, pqTarget, pqMode, pqRaw, pqRawItems, pqRows, pqResolved,
                 pqEnum, pqOps, coreVars, patVars, fmVars, exVars>>

\* the consumer leaves its loop: return() on the suspended generator
PiqStreamStop ==
  /\ pqPc = "yield"
  /\ pqPc' = "idle" /\ pqOutcome' = "returned"
  /\ UNCHANGED <<builders, pqTarget, pqMode, pqRaw, pqRawItems, pqRows, pqGiven,
                 pqResolved, pqEnum, pqOps, coreVars, patVars, fmVars, exVars>>

PiqInit ==
  /\ builders = <<NewBuilder>>
  /\ pqTarget = 0 /\ pqMode = "none" /\ pqPc = "idle" /\ pqOutcome = "none"
  /\ pqRaw = <<>> /\ pqRawItems = <<>> /\ pqRows = <<>> /\ pqGiven = <<>>
  /\ pqResolved = {} /\ pqEnum = {} /\ pqOps = 0

PiqModes == {"exec", "single", "execOrThrow", "stream"}

PiqNext ==
  \/ \E b \in 1..Len(builders), c \in PqScanArgs : PiqScan(b, c)
  \/ \E b \in 1..Len(builders), c \in FilterArgs : PiqFilter(b, c)
  \/ \E b \in 1..Len(builders), pathList \in PqSelectArgs : PiqSelect(b, pathList)
  \/ \E b \in 1..Len(builders), aliases \in PqAliasArgs : PiqSelectAliases(b, aliases)
  \/ \E b \in 1..Len(builders), m \in PiqModes : PiqTerminal(b, m)
  \/ PiqStreamNext
  \/ PiqStreamStop

(***************************************************************************)
(* Path patterns.  A string is the sequence of its characters.  The core   *)
(* compiler is packages/core/src/path-pattern.ts, the resolvers' compiler  *)
(* is compilePattern of packages/resolvers/src/markdown.ts.                *)
(***************************************************************************)
StartsWith(s, pre) == Len(s) >= Len(pre) /\ SubSeq(s, 1, Len(pre)) = pre
Drop(s, n) == SubSeq(s, n + 1, Len(s))

RECURSIVE Join(_)
Join(chars) == IF chars = <<>> THEN "" ELSE Head(chars) \o Join(Tail(chars))

RECURSIVE Flatten(_)
Flatten(ss) == IF ss = <<>> THEN <<>> ELSE Head(ss) \o Flatten(Tail(ss))

SetMax(S) == CHOOSE n \in S : \A m \in S : m <= n
SetMin(S) == CHOOSE n \in S : \A m \in S : n <= m

\* /^<prefix>([^}]+)\}/ against `remaining`
PlaceholderAt(remaining, prefix) ==
  LET after == Drop(remaining, Len(prefix))
      close == IndexOf(after, "}")
  IN IF StartsWith(remaining, prefix) /\ close >= 2
     THEN [ok |-> TRUE, name |-> Join(SubSeq(after, 1, close - 1)),
           len |-> Len(prefix) + close]
     ELSE [ok |-> FALSE, name |-> "", len |-> 0]

ParamToken(name, paramType) == [type |-> "param", name |-> name, paramType |-> paramType]
LiteralToken(value) == [type |-> "literal", value |-> value]

RECURSIVE TokenizeFrom(_, _)
TokenizeFrom(remaining, tokens) ==
  IF remaining = <<>> THEN tokens
  ELSE LET splatMatch == PlaceholderAt(remaining, <<"{", ".", ".", ".">>)
           optionalMatch == PlaceholderAt(remaining, <<"{", "?">>)
           requiredMatch == PlaceholderAt(remaining, <<"{">>)
       IN IF splatMatch.ok
          THEN TokenizeFrom(Drop(remaining, splatMatch.len),
                            Append(tokens, ParamToken(splatMatch.name, "splat")))
          ELSE IF optionalMatch.ok
          THEN TokenizeFrom(Drop(remaining, optionalMatch.len),
                            Append(tokens, ParamToken(optionalMatch.name, "optional")))
          ELSE IF requiredMatch.ok
          THEN TokenizeFrom(Drop(remaining, requiredMatch.len),
                            Append(tokens, ParamToken(requiredMatch.name, "required")))
          ELSE IF tokens # <<>> /\ tokens[Len(tokens)].type = "literal"
          THEN TokenizeFrom(Tail(remaining),
                            [tokens EXCEPT ![Len(tokens)].value = Append(@, Head(remaining))])
          ELSE TokenizeFrom(Tail(remaining),
                            Append(tokens, LiteralToken(<<Head(remaining)>>)))

tokenize(pattern) == TokenizeFrom(pattern, <<>>)

\* a literal that ends with "/" and is followed by an optional parameter
BeforeOptional(tokens, i) ==
  /\ tokens[i].value[Len(tokens[i].value)] = "/"
  /\ i + 1 <= Len(tokens)
  /\ tokens[i + 1].type = "param"
  /\ tokens[i + 1].paramType = "optional"

getStopChars(tokens, fromIndex) ==
  IF fromIndex + 1 > Len(tokens) THEN ""
  ELSE IF tokens[fromIndex + 1].type = "literal" THEN tokens[fromIndex + 1].value[1]
  ELSE ""

\* the pieces of a regular expression between ^ and $
ReLit(chars) == [k |-> "lit", s |-> chars]
ReClass(excl, greedy) == [k |-> "cls", excl |-> excl, greedy |-> greedy]
ReOptional == [k |-> "opt"]
ReSplat == [k |-> "splat"]
ReDigits == [k |-> "digits"]
Digits == {"0", "1", "2", "3", "4", "5", "6", "7", "8", "9"}

RECURSIVE CompileFrom(_, _)
CompileFrom(tokens, i) ==
  IF i > Len(tokens) THEN <<>>
  ELSE LET token == tokens[i]
           here ==
             IF token.type = "literal"
             THEN IF BeforeOptional(tokens, i)
                  THEN LET withoutSlash == SubSeq(token.value, 1, Len(token.value) - 1)
                       IN IF withoutSlash # <<>> THEN <<ReLit(withoutSlash)>> ELSE <<>>
                  ELSE <<ReLit(token.value)>>
             ELSE CASE token.paramType = "required" ->
                         LET stopChar == getStopChars(tokens, i)
                         IN IF stopChar # "" /\ stopChar # "/"
                            THEN <<ReClass({"/", stopChar}, TRUE)>>
                            ELSE <<ReClass({"/"}, TRUE)>>
                    [] token.paramType = "optional" -> <<ReOptional>>
                    [] OTHER -> <<ReSplat>>
       IN here \o CompileFrom(tokens, i + 1)

\* compileValidationRegex: the same walk with non-capturing groups, every
\* required parameter as (?:[^/]+)
RECURSIVE ValidationFrom(_, _)
ValidationFrom(tokens, i) ==
  IF i > Len(tokens) THEN <<>>
  ELSE LET token == tokens[i]
           here ==
             IF token.type = "literal"
             THEN IF BeforeOptional(tokens, i)
                  THEN LET withoutSlash == SubSeq(token.value, 1, Len(token.value) - 1)
                       IN IF withoutSlash # <<>> THEN <<ReLit(withoutSlash)>> ELSE <<>>
                  ELSE <<ReLit(token.value)>>
             ELSE CASE token.paramType = "required" -> <<ReClass({"/"}, TRUE)>>
                    [] token.paramType = "optional" -> <<ReOptional>>
                    [] OTHER -> <<ReSplat>>
       IN here \o ValidationFrom(tokens, i + 1)

compileValidationRegex(pattern) == ValidationFrom(tokenize(pattern), 1)

ParamsOfTokens(tokens) ==
  LET ps == SelectSeq(tokens, LAMBDA t : t.type = "param")
  IN [k \in 1..Len(ps) |-> [name |-> ps[k].name, type |-> ps[k].paramType]]

compilePattern(pattern) ==
  [pattern |-> pattern,
   regex |-> CompileFrom(tokenize(pattern), 1),
   params |-> ParamsOfTokens(tokenize(pattern))]

\* String.match with an anchored regex: None, or the capture groups in order
\* (a group that took no part is None), found as the backtracking matcher
\* finds them: a greedy piece takes the longest run that lets the rest match,
\* a lazy one the shortest
RECURSIVE RegexMatch(_, _)
RegexMatch(items, s) ==
  IF items = <<>> THEN (IF s = <<>> THEN Some(<<>>) ELSE None)
  ELSE LET it == Head(items)
           rest == Tail(items)
           Runs(str, excl, least) ==
             {n \in least..Len(str) :
                /\ \A j \in 1..n : str[j] \notin excl
                /\ IsSome(RegexMatch(rest, Drop(str, n)))}
           DigitRuns(str) ==
             {n \in 1..Len(str) :
                /\ \A j \in 1..n : str[j] \in Digits
                /\ IsSome(RegexMatch(rest, Drop(str, n)))}
           Taking(str, n) ==
             Some(<<Some(SubSeq(str, 1, n))>> \o Get(RegexMatch(rest, Drop(str, n))))
       IN CASE it.k = "lit" ->
                 IF StartsWith(s, it.s) THEN RegexMatch(rest, Drop(s, Len(it.s))) ELSE None
            [] it.k = "cls" ->
                 LET F == Runs(s, it.excl, 1)
                 IN IF F = {} THEN None
                    ELSE Taking(s, IF it.greedy THEN SetMax(F) ELSE SetMin(F))
            [] it.k = "digits" ->
                 IF DigitRuns(s) = {} THEN None ELSE Taking(s, SetMax(DigitRuns(s)))
            [] it.k = "opt" ->
                 LET F == IF s # <<>> /\ Head(s) = "/" THEN Runs(Tail(s), {"/"}, 1) ELSE {}
                     skip == RegexMatch(rest, s)
                 IN IF F # {} THEN Taking(Tail(s), SetMax(F))
                    ELSE IF IsSome(skip) THEN Some(<<None>> \o Get(skip))
                    ELSE None
            [] OTHER ->
                 LET F == Runs(s, {}, 0)
                 IN IF F = {} THEN None ELSE Taking(s, SetMax(F))

\* regex.test(path)
RegexTest(regex, path) == IsSome(RegexMatch(regex, path))

\* matchPattern(compiled, path): null, or the params record
matchPattern(compiled, path) ==
  LET match == RegexMatch(compiled.regex, path)
      ps == compiled.params
      Has(i) == IsSome(Get(match)[i]) /\ Get(Get(match)[i]) # <<>>
  IN IF match = None THEN None
     ELSE IF \E i \in 1..Len(ps) : ~Has(i) /\ ps[i].type = "required" THEN None
     ELSE Some([n \in {ps[i].name : i \in {j \in 1..Len(ps) : Has(j)}} |->
                  LET i == SetMax({j \in 1..Len(ps) : Has(j) /\ ps[j].name = n})
                  IN Get(Get(match)[i])])

\* buildPath(compiled, params): the path, or None when it throws
RECURSIVE BuildFrom(_, _, _)
BuildFrom(tokens, i, params) ==
  IF i > Len(tokens) THEN Some(<<>>)
  ELSE LET token == tokens[i]
           After(piece, step) ==
             LET tl == BuildFrom(tokens, i + step, params)
             IN IF tl = None THEN None ELSE Some(piece \o Get(tl))
       IN IF token.type = "literal"
          THEN IF BeforeOptional(tokens, i)
               THEN IF tokens[i + 1].name \in DOMAIN params
                    THEN After(token.value \o params[tokens[i + 1].name], 2)
                    ELSE After(SubSeq(token.value, 1, Len(token.value) - 1), 2)
               ELSE After(token.value, 1)
          ELSE IF token.name \in DOMAIN params THEN After(params[token.name], 1)
          ELSE IF token.paramType = "required" THEN None
          ELSE After(<<>>, 1)

buildPath(compiled, params) == BuildFrom(tokenize(compiled.pattern), 1, params)

\* ------------------------------------------- markdown.ts: compilePattern
\* the characters [a-zA-Z_] and [a-zA-Z0-9_] that patterns here are written with
IdentStart == {"a", "b", "m", "n", "o", "p", "r", "v", "x", "y", "_"}
IdentChars == IdentStart \cup {"0", "1", "2"}

\* PARAM_REGEX at the head of s: "{", an identifier, an optional ":" with a
\* constraint free of braces, "}"
mdPlaceholderAt(s) ==
  LET idents == {n \in 1..(Len(s) - 1) : \A j \in 2..(n + 1) : s[j] \in IdentChars}
      n == SetMax(idents)
      after == Drop(s, n + 1)
      close == IndexOf(after, "}")
      plain == after # <<>> /\ after[1] = "}"
      constrained ==
        /\ Len(after) >= 3 /\ after[1] = ":" /\ close >= 3
        /\ \A j \in 2..(close - 1) : after[j] # "{"
      No == [ok |-> FALSE, name |-> "", raw |-> <<>>, constraint |-> None]
  IN IF Len(s) < 3 \/ Head(s) # "{" \/ s[2] \notin IdentStart \/ idents = {} THEN No
     ELSE IF plain
     THEN [ok |-> TRUE, name |-> Join(SubSeq(s, 2, n + 1)),
           raw |-> SubSeq(s, 1, n + 2), constraint |-> None]
     ELSE IF constrained
     THEN [ok |-> TRUE, name |-> Join(SubSeq(s, 2, n + 1)),
           raw |-> SubSeq(s, 1, n + 1 + close),
           constraint |-> Some(SubSeq(after, 2, close - 1))]
     ELSE No

\* the placeholders of a pattern, in order, as regex.exec finds them
RECURSIVE mdPlaceholders(_)
mdPlaceholders(s) ==
  IF s = <<>> THEN <<>>
  ELSE LET ph == mdPlaceholderAt(s)
       IN IF ph.ok THEN <<ph>> \o mdPlaceholders(Drop(s, Len(ph.raw)))
          ELSE mdPlaceholders(Tail(s))

\* String.prototype.trim on the constraint text
RECURSIVE TrimLeft(_)
TrimLeft(s) == IF s # <<>> /\ Head(s) = " " THEN TrimLeft(Tail(s)) ELSE s
RECURSIVE TrimRight(_)
TrimRight(s) ==
  IF s # <<>> /\ s[Len(s)] = " " THEN TrimRight(SubSeq(s, 1, Len(s) - 1)) ELSE s
Trim(s) == TrimLeft(TrimRight(s))

\* the capture group of a placeholder: constraint?.trim() || "[^/]+?", the
\* constraint taken as the regular expression it spells
mdCapture(constraint) ==
  LET text == IF IsSome(constraint) THEN Trim(Get(constraint)) ELSE <<>>
  IN CASE text = <<>> -> ReClass({"/"}, FALSE)
       [] text = <<".", "+">> -> ReClass({}, TRUE)
       [] text = <<".", "*">> -> ReSplat
       [] text = <<"\\", "d", "+">> -> ReDigits
       [] text = <<"[", "^", "/", "]", "+">> -> ReClass({"/"}, TRUE)

\* the match regex: escaped literal text, and a capture group for each placeholder
RECURSIVE mdRegexFrom(_, _)
mdRegexFrom(s, literal) ==
  LET flush == IF literal = <<>> THEN <<>> ELSE <<ReLit(literal)>>
  IN IF s = <<>> THEN flush
     ELSE LET ph == mdPlaceholderAt(s)
          IN IF ph.ok
             THEN flush \o <<mdCapture(ph.constraint)>> \o mdRegexFrom(Drop(s, Len(ph.raw)), <<>>)
             ELSE mdRegexFrom(Tail(s), Append(literal, Head(s)))

mdParamNames(pattern) ==
  LET phs == mdPlaceholders(pattern) IN [k \in 1..Len(phs) |-> phs[k].name]

\* CompiledPattern.match(path)
mdMatch(pattern, path) ==
  LET result == RegexMatch(mdRegexFrom(pattern, <<>>), path)
      paramNames == mdParamNames(pattern)
  IN IF result = None THEN None
     ELSE Some([n \in SeqToSet(paramNames) |->
                  Get(Get(result)[SetMax({i \in 1..Len(paramNames) : paramNames[i] = n})])])

\* String.prototype.replace(raw, value): the first occurrence only
RECURSIVE ReplaceFirst(_, _, _)
ReplaceFirst(s, raw, value) ==
  IF s = <<>> THEN <<>>
  ELSE IF StartsWith(s, raw) THEN value \o Drop(s, Len(raw))
  ELSE <<Head(s)>> \o ReplaceFirst(Tail(s), raw, value)

\* CompiledPattern.build(params): the path, or None when it throws
RECURSIVE mdBuildFrom(_, _, _)
mdBuildFrom(result, placeholders, params) ==
  IF placeholders = <<>> THEN Some(result)
  ELSE IF Head(placeholders).name \notin DOMAIN params THEN None
  ELSE mdBuildFrom(ReplaceFirst(result, Head(placeholders).raw,
                                params[Head(placeholders).name]),
                   Tail(placeholders), params)

mdBuild(pattern, params) == mdBuildFrom(pattern, mdPlaceholders(pattern), params)

\* ----------------------------------------------- patterns and params drawn
PatLiterals ==
  { LiteralToken(<<"/">>), LiteralToken(<<".", "m">>), LiteralToken(<<"-">>) }
PatParamTokens ==
  { ParamToken("a", "required"), ParamToken("b", "required"),
    ParamToken("o", "optional"), ParamToken("r", "splat") }

\* values free of the separator, and the values a splat may take as well
PatVals == { <<"x">>, <<"x", ".", "y">>, <<"x", "-", "y">> }
PatSplatVals == PatVals \cup { <<"x", "/", "y">> }

Render(token) ==
  IF token.type = "literal" THEN token.value
  ELSE CASE token.paramType = "required" -> <<"{", token.name, "}">>
         [] token.paramType = "optional" -> <<"{", "?", token.name, "}">>
         [] OTHER -> <<"{", ".", ".", ".", token.name, "}">>

\* token sequences whose parameter names are unique
TokenSeqs ==
  {ts \in UNION {[1..n -> PatLiterals \cup PatParamTokens] : n \in 1..MaxTokens} :
     \A a, b \in 1..Len(ts) : (a # b /\ ts[a].type = "param") => ts[a] # ts[b]}

Patterns == {Flatten([k \in 1..Len(ts) |-> Render(ts[k])]) : ts \in TokenSeqs}

\* the params records that satisfy a pattern: every required parameter set,
\* an optional or splat one set or absent, no separator outside a splat
ParamMaps(pattern) ==
  LET ps == ParamsOfTokens(tokenize(pattern))
      Kind(n) == ps[SetMin({k \in 1..Len(ps) : ps[k].name = n})].type
      required == {ps[k].name : k \in {j \in 1..Len(ps) : ps[j].type = "required"}}
      others == {ps[k].name : k \in 1..Len(ps)} \ required
  IN {f \in UNION {[required \cup X -> PatSplatVals] : X \in SUBSET others} :
        \A n \in DOMAIN f : Kind(n) # "splat" => f[n] \in PatVals}

PatInit ==
  /\ patPattern \in Patterns
  /\ patParams \in ParamMaps(patPattern)
  /\ patImpl = "none" /\ patPc = "start" /\ patBuilt = None /\ patMatched = None
  /\ patPath = None /\ patValid = None
  /\ patConstraints = None /\ patListed = None

\* no pattern in play
PatIdle ==
  /\ patPattern = <<>> /\ patParams = EmptyMap
  /\ patImpl = "none" /\ patPc = "start" /\ patBuilt = None /\ patMatched = None
  /\ patPath = None /\ patValid = None
  /\ patConstraints = None /\ patListed = None

CorePatBuild ==
  /\ patPc = "start"
  /\ patImpl' = "core"
  /\ patBuilt' = buildPath(compilePattern(patPattern), patParams)
  /\ patPc' = IF patBuilt' = None THEN "threw" ELSE "built"
  /\ UNCHANGED <<patPattern, patParams, patPath, patValid, patMatched, patConstraints, patListed,
               coreVars, piqVars, fmVars, exVars>>

CorePatMatch ==
  /\ patPc = "built" /\ patImpl = "core"
  /\ patMatched' = matchPattern(compilePattern(patPattern), Get(patBuilt))
  /\ patPc' = "matched"
  /\ UNCHANGED <<patPattern, patParams, patImpl, patBuilt, patPath, patValid, patConstraints, patListed,
               coreVars, piqVars, fmVars, exVars>>

\* the resolvers' compiler knows the parameters its PARAM_REGEX finds
MdPatBuild ==
  /\ patPc = "start"
  /\ DOMAIN patParams = SeqToSet(mdParamNames(patPattern))
  /\ patImpl' = "markdown"
  /\ patBuilt' = mdBuild(patPattern, patParams)
  /\ patPc' = IF patBuilt' = None THEN "threw" ELSE "built"
  /\ UNCHANGED <<patPattern, patParams, patPath, patValid, patMatched, patConstraints, patListed,
               coreVars, piqVars, fmVars, exVars>>

MdPatMatch ==
  /\ patPc = "built" /\ patImpl = "markdown"
  /\ patMatched' = mdMatch(patPattern, Get(patBuilt))
  /\ patPc' = "matched"
  /\ UNCHANGED <<patPattern, patParams, patImpl, patBuilt, patPath, patValid, patConstraints, patListed,
               coreVars, piqVars, fmVars, exVars>>

PatNext == CorePatBuild \/ CorePatMatch \/ MdPatBuild \/ MdPatMatch

\* ------------------------------------- patterns compiled, then paths matched
\* pattern text in pieces: a separator, the four placeholder forms, an inline
\* constraint that admits the separator, an unclosed and an empty placeholder
PatPieces ==
  { <<"/">>, <<"{", "a", "}">>, <<"{", "?", "o", "}">>, <<"{", ".", ".", ".", "r", "}">>,
    <<"{", "v", ":", ".", "+", "}">>, <<"{", "b">>, <<"{", "}">>,
    <<"{", "n", ":", "\\", "d", "+", "}">>, <<"-">> }

\* pieces in a row
PiecePatterns ==
  {Flatten(ps) : ps \in UNION {[1..n -> PatPieces] : n \in 1..MaxPieces}}

PatPaths == UNION {[1..n -> {"x", "/", ".", "0", "-"}] : n \in 1..MaxPathLen}

PieceInit ==
  /\ patPattern \in PiecePatterns /\ patParams = EmptyMap
  /\ patImpl = "none" /\ patPc = "start" /\ patBuilt = None /\ patMatched = None
  /\ patPath = None /\ patValid = None
  /\ patConstraints = None /\ patListed = None

\* compilePattern(pattern) of path-pattern.ts returns: no path of it throws
CorePatCompile ==
  /\ patPc = "start"
  /\ patImpl' = "core"
  /\ patPc' = "compiled"
  /\ UNCHANGED <<patPattern, patParams, patBuilt, patPath, patValid, patMatched, patConstraints, patListed,
               coreVars, piqVars, fmVars, exVars>>

\* compilePattern(pattern) of markdown.ts returns
MdPatCompile ==
  /\ patPc = "start"
  /\ patImpl' = "markdown"
  /\ patPc' = "compiled"
  /\ UNCHANGED <<patPattern, patParams, patBuilt, patPath, patValid, patMatched, patConstraints, patListed,
               coreVars, piqVars, fmVars, exVars>>

\* matchPattern(compiled, path)
CorePatMatchPath(path) ==
  /\ patPc = "compiled" /\ patImpl = "core"
  /\ patPath' = Some(path)
  /\ patMatched' = matchPattern(compilePattern(patPattern), path)
  /\ patPc' = "matchedPath"
  /\ UNCHANGED <<patPattern, patParams, patImpl, patBuilt, patValid, patConstraints, patListed,
               coreVars, piqVars, fmVars, exVars>>

\* CompiledPattern.match(path)
MdPatMatchPath(path) ==
  /\ patPc = "compiled" /\ patImpl = "markdown"
  /\ patPath' = Some(path)
  /\ patMatched' = mdMatch(patPattern, path)
  /\ patPc' = "matchedPath"
  /\ UNCHANGED <<patPattern, patParams, patImpl, patBuilt, patValid, patConstraints, patListed,
               coreVars, piqVars, fmVars, exVars>>

\* validationRegex.test(path) and compiled.regex.test(path) on the same path
CorePatValidate(path) ==
  /\ patPc = "compiled" /\ patImpl = "core"
  /\ patPath' = Some(path)
  /\ patValid' = Some(RegexTest(compileValidationRegex(patPattern), path))
  /\ patMatched' = matchPattern(compilePattern(patPattern), path)
  /\ patPc' = "validated"
  /\ UNCHANGED <<patPattern, patParams, patImpl, patBuilt, patConstraints, patListed,
               coreVars, piqVars, fmVars, exVars>>

MatchNext ==
  \/ CorePatCompile
  \/ \E path \in PatPaths : CorePatValidate(path)
  \/ MdPatCompile
  \/ \E path \in PatPaths : CorePatMatchPath(path)
  \/ \E path \in PatPaths : MdPatMatchPath(path)

(***************************************************************************)
(* Enumeration by glob: patternToGlob of path-pattern.ts, toGlob of        *)
(* markdown.ts, and the two resolvers that scan with them:                 *)
(* globResolver.search/scan and fileMarkdown.resolve.                      *)
(***************************************************************************)
\* constraints?.[name], None when undefined
ConstraintOf(constraints, name) ==
  IF IsSome(constraints) /\ name \in DOMAIN Get(constraints)
  THEN Some(Get(constraints)[name]) ELSE None

OptionalGlob == <<"{", ",", "/", "*", "}">>

\* patternToGlob(tokens, constraints): the glob text
RECURSIVE GlobOfTokens(_, _, _)
GlobOfTokens(tokens, i, constraints) ==
  IF i > Len(tokens) THEN <<>>
  ELSE LET token == tokens[i] IN
       IF token.type = "literal"
       THEN IF BeforeOptional(tokens, i)
            THEN LET constraintValue == ConstraintOf(constraints, tokens[i + 1].name)
                 IN (IF IsSome(constraintValue)
                     THEN token.value \o Get(constraintValue)
                     ELSE SubSeq(token.value, 1, Len(token.value) - 1) \o OptionalGlob)
                    \o GlobOfTokens(tokens, i + 2, constraints)
            ELSE token.value \o GlobOfTokens(tokens, i + 1, constraints)
       ELSE LET constraintValue == ConstraintOf(constraints, token.name)
            IN (IF IsSome(constraintValue) THEN Get(constraintValue)
                ELSE CASE token.paramType = "required" -> <<"*">>
                       [] token.paramType = "optional" -> OptionalGlob
                       [] OTHER -> <<"*", "*">>)
               \o GlobOfTokens(tokens, i + 1, constraints)

patternToGlob(pattern, constraints) == GlobOfTokens(tokenize(pattern), 1, constraints)

\* CompiledPattern.toGlob(constraints) of markdown.ts: each placeholder's
\* first occurrence replaced in turn
RECURSIVE mdGlobFrom(_, _, _)
mdGlobFrom(glob, placeholders, constraints) ==
  IF placeholders = <<>> THEN glob
  ELSE LET value == ConstraintOf(constraints, Head(placeholders).name)
       IN mdGlobFrom(ReplaceFirst(glob, Head(placeholders).raw,
                                  IF IsSome(value) THEN Get(value) ELSE <<"*">>),
                     Tail(placeholders), constraints)

mdToGlob(pattern, constraints) == mdGlobFrom(pattern, mdPlaceholders(pattern), constraints)

\* glob text whose reading is the common one: no brace, bracket, "?" or
\* escape besides the {,/*} group, and every ** a path component of its own
GlobSpecial == {"{", "}", "[", "]", "?", "!", "\\", ","}
RECURSIVE GlobPlainFrom(_, _)
GlobPlainFrom(glob, prev) ==
  IF glob = <<>> THEN TRUE
  ELSE IF StartsWith(glob, OptionalGlob) THEN GlobPlainFrom(Drop(glob, 5), "}")
  ELSE IF StartsWith(glob, <<"*", "*">>)
  THEN /\ prev \in {"", "/"}
       /\ IF Len(glob) = 2 THEN TRUE ELSE glob[3] = "/"
       /\ GlobPlainFrom(Drop(glob, 2), "*")
  ELSE IF Head(glob) = "*" THEN prev # "}" /\ GlobPlainFrom(Tail(glob), "*")
  ELSE IF Head(glob) \in GlobSpecial THEN FALSE
  ELSE GlobPlainFrom(Tail(glob), Head(glob))

GlobPlain(glob) == GlobPlainFrom(glob, "")

\* Glob.match(path): * stays inside a path component, ** takes whole
\* components, {,/*} is nothing or one more component
RECURSIVE GlobMatch(_, _)
GlobMatch(glob, path) ==
  IF glob = <<>> THEN path = <<>>
  ELSE IF StartsWith(glob, OptionalGlob)
  THEN \/ GlobMatch(Drop(glob, 5), path)
       \/ GlobMatch(<<"/", "*">> \o Drop(glob, 5), path)
  ELSE IF StartsWith(glob, <<"*", "*", "/">>)
  THEN \/ GlobMatch(Drop(glob, 3), path)
       \/ \E k \in 2..Len(path) : path[k] = "/" /\ GlobMatch(Drop(glob, 3), Drop(path, k))
  ELSE IF glob = <<"*", "*">> THEN path # <<>>
  ELSE IF Head(glob) = "*"
  THEN \E n \in 0..Len(path) :
         /\ \A j \in 1..n : path[j] # "/"
         /\ GlobMatch(Tail(glob), Drop(path, n))
  ELSE path # <<>> /\ Head(path) = Head(glob) /\ GlobMatch(Tail(glob), Tail(path))

\* the components of a path
RECURSIVE Components(_, _)
Components(path, current) ==
  IF path = <<>> THEN <<current>>
  ELSE IF Head(path) = "/" THEN <<current>> \o Components(Tail(path), <<>>)
  ELSE Components(Tail(path), Append(current, Head(path)))

\* relative(baseDir, file) of a file the scan found under baseDir
RelativeFilePath(path) ==
  \A k \in 1..Len(Components(path, <<>>)) :
    Components(path, <<>>)[k] \notin {<<>>, <<".">>, <<".", ".">>}

\* a file or directory name that starts with "."
Hidden(path) ==
  \E k \in 1..Len(Components(path, <<>>)) :
    Components(path, <<>>)[k] # <<>> /\ Components(path, <<>>)[k][1] = "."

\* the parameter names a compiled pattern carries, in order
CompiledNamesOf(impl, pattern) ==
  IF impl = "core"
  THEN LET ps == compilePattern(pattern).params IN [k \in 1..Len(ps) |-> ps[k].name]
  ELSE mdParamNames(pattern)

\* the values scan constraints are given
ScanVals == { <<"x">>, <<"0">> }

\* the parameter names the pieces can give a pattern, in either compiler
ScanNames == {"a", "o", "r", "v", "n", "v:.+", "n:\\d+"}

\* Partial<TSearch>: the constraints name parameters of the pattern
ConstrainsOnly(constraints, names) ==
  IsSome(constraints) => DOMAIN Get(constraints) \subseteq SeqToSet(names)

\* scan constraints: undefined, {} or one parameter constrained
ScanConstraints(names) ==
  {None, Some(EmptyMap)}
    \cup {Some([k \in {name} |-> v]) : name \in names, v \in ScanVals}

ScanPatterns ==
  {Flatten(ps) : ps \in UNION {[1..n -> PatPieces] : n \in 1..MaxScanPieces}}

ScanPatInit ==
  /\ patPattern \in ScanPatterns /\ patParams = EmptyMap
  /\ patImpl = "none" /\ patPc = "start" /\ patBuilt = None /\ patMatched = None
  /\ patPath = None /\ patValid = None
  /\ patConstraints = None /\ patListed = None

\* globResolver.search(constraints) / scan(constraints) on a directory that
\* holds a file at `path`: whether the file is pushed / yielded
GlobSearch(path, constraints) ==
  LET compiled == compilePattern(patPattern)
      globPattern == patternToGlob(patPattern, constraints)
      params == matchPattern(compiled, path)
  IN /\ patPc = "compiled" /\ patImpl = "core"
     /\ ConstrainsOnly(constraints, CompiledNamesOf("core", patPattern))
     /\ RelativeFilePath(path) /\ GlobPlain(globPattern)
     /\ patPath' = Some(path)
     /\ patConstraints' = constraints
     /\ patValid' = Some(RegexTest(compileValidationRegex(patPattern), path))
     /\ patListed' =
          Some(/\ GlobMatch(globPattern, path)
               /\ RegexTest(compileValidationRegex(patPattern), path)
               /\ IsSome(constraints)
                    => IsSome(params) /\ matchesConstraints(Get(params), Get(constraints)))
     /\ patPc' = "searched"
     /\ UNCHANGED <<patPattern, patParams, patImpl, patBuilt, patMatched,
                    coreVars, piqVars, fmVars, exVars>>

\* globResolver.extractParams(path) on a path search() returned
GlobExtractParams ==
  /\ patPc = "searched" /\ patListed = Some(TRUE)
  /\ patMatched' = matchPattern(compilePattern(patPattern), Get(patPath))
  /\ patPc' = IF patMatched' = None THEN "threw" ELSE "extracted"
  /\ UNCHANGED <<patPattern, patParams, patImpl, patBuilt, patPath, patValid,
                 patConstraints, patListed, coreVars, piqVars, fmVars, exVars>>

\* fileMarkdown.resolve(spec) on a directory that holds a visible file at
\* `path`: whether a result is pushed for it, and the params it carries
FileMarkdownResolve(path, scan) ==
  LET globPattern == mdToGlob(patPattern, scan)
      params == mdMatch(patPattern, path)
  IN /\ patPc = "compiled" /\ patImpl = "markdown"
     /\ ConstrainsOnly(scan, mdParamNames(patPattern))
     /\ RelativeFilePath(path) /\ ~Hidden(path) /\ GlobPlain(globPattern)
     /\ patPath' = Some(path)
     /\ patConstraints' = scan
     /\ patListed' = Some(GlobMatch(globPattern, path) /\ IsSome(params))
     /\ patMatched' = params
     /\ patPc' = "resolved"
     /\ UNCHANGED <<patPattern, patParams, patImpl, patBuilt, patValid,
                    coreVars, piqVars, fmVars, exVars>>

ScanNext ==
  \/ CorePatCompile
  \/ MdPatCompile
  \/ \E constraints \in ScanConstraints(ScanNames) :
       \E path \in PatPaths : GlobSearch(path, constraints)
  \/ GlobExtractParams
  \/ \E scan \in ScanConstraints(ScanNames) :
       \E path \in PatPaths : FileMarkdownResolve(path, scan)

(***************************************************************************)
(* Frontmatter: packages/resolvers/src/frontmatter.ts, and the read of it  *)
(* in fileMarkdown.resolve.  A file is its lines, joined by "\n".          *)
(***************************************************************************)
Fence == "---"
KeyLine == "status: draft"
FmLines == {Fence, KeyLine, "text", ""}
FmContents == UNION {[1..n -> FmLines] : n \in 1..MaxLines}

\* FRONTMATTER_REGEX.exec(content): None, or the lines captured between the
\* opening "---\n" and the first "\n---" that follows it
FrontmatterMatch(content) ==
  LET closes == {j \in 3..Len(content) : content[j] = Fence}
  IN IF Len(content) >= 3 /\ content[1] = Fence /\ closes # {}
     THEN Some(SubSeq(content, 2, SetMin(closes) - 1))
     ELSE None

\* parseSimpleYaml on these lines: a "key: value" line sets the key, a line
\* without a colon and an empty line set nothing
parseSimpleYaml(yaml) ==
  IF KeyLine \in SeqToSet(yaml) THEN [status |-> "draft"] ELSE EmptyMap

FmValue(v) == [outcome |-> "value", value |-> v]
FmNull == [outcome |-> "null", value |-> EmptyMap]
FmThrown == [outcome |-> "FrontmatterParseError", value |-> EmptyMap]

parseFrontmatter(content) ==
  LET match == FrontmatterMatch(content)
  IN IF match = None THEN FmNull ELSE FmValue(parseSimpleYaml(Get(match)))

\* content.startsWith("---\n")
hasFrontmatterAtStart(content) == Len(content) >= 2 /\ content[1] = Fence

\* FRONTMATTER_FENCE_ANYWHERE_REGEX.test(content): a "---" line with a line after it
FenceAnywhere(content) == \E k \in 1..(Len(content) - 1) : content[k] = Fence

parseFrontmatterStrict(content) ==
  IF hasFrontmatterAtStart(content)
  THEN LET match == FrontmatterMatch(content)
       IN IF match = None THEN FmThrown ELSE FmValue(parseSimpleYaml(Get(match)))
  ELSE IF FenceAnywhere(content) THEN FmThrown
  ELSE FmNull

\* fileMarkdown.resolve reading the frontmatter of one file: a null becomes {}
resolveFrontmatter(content) ==
  IF parseFrontmatter(content).outcome = "null" THEN FmValue(EmptyMap)
  ELSE parseFrontmatter(content)

FmInit == fmContent \in FmContents /\ fmOut = None

\* no file in play
FmIdle == fmContent = <<>> /\ fmOut = None

FmParse ==
  /\ fmOut = None
  /\ fmOut' = Some(Spread([call |-> "parseFrontmatter"], parseFrontmatter(fmContent)))
  /\ UNCHANGED <<fmContent, coreVars, piqVars, patVars, exVars>>

FmParseStrict ==
  /\ fmOut = None
  /\ fmOut' = Some(Spread([call |-> "parseFrontmatterStrict"], parseFrontmatterStrict(fmContent)))
  /\ UNCHANGED <<fmContent, coreVars, piqVars, patVars, exVars>>

FmResolve ==
  /\ fmOut = None
  /\ fmOut' = Some(Spread([call |-> "resolve"], resolveFrontmatter(fmContent)))
  /\ UNCHANGED <<fmContent, coreVars, piqVars, patVars, exVars>>

FmNext == FmParse \/ FmParseStrict \/ FmResolve

(***************************************************************************)
(* expandWildcards applied to a path list, and again to its own result     *)
(***************************************************************************)
ExPathArgs ==
  { <<"params", "*">>, <<"frontmatter", "*">>, <<"body", "*">>, <<"missing", "*">>,
    <<"params", "title">>, <<"frontmatter", "title">>, <<"frontmatter", "tags", "*">> }
ExPathLists == UNION {[1..n -> ExPathArgs] : n \in 1..MaxPathList}

\* namespaced results: each namespace absent, or an object with some of its keys
ExShapes ==
  UNION {{[ns \in present |-> [k \in keys[ns] |-> "v"]] :
            keys \in {f \in [present -> SUBSET {"year", "title", "status", "html"}] :
                        \A ns \in present : f[ns] \subseteq SeqToSet(KeyOrder(ns))}} :
         present \in SUBSET {"params", "frontmatter", "body"}}

ExInit == exPaths \in ExPathLists /\ exNs \in ExShapes /\ exOut = <<>>

\* no list in play
ExIdle == exPaths = <<>> /\ exNs = EmptyMap /\ exOut = <<>>

\* expandWildcards(paths, namespaces), on the list given or on the last result
ExExpand ==
  /\ Len(exOut) < 2
  /\ exOut' = Append(exOut, expandWildcards(IF exOut = <<>> THEN exPaths
                                            ELSE exOut[Len(exOut)], exNs))
  /\ UNCHANGED <<exPaths, exNs, coreVars, piqVars, patVars, fmVars>>

BuilderNext ==
  \/ \E c \in SearchArgs \cup {Wildcard} : CoreSearch(c)
  \/ \E c \in FilterArgs : CoreFilter(c)
  \/ \E spec \in SelectArgs : CoreSelect(spec)

ExecNext ==
  \/ \E m \in {"exec", "single"} : CoreExecStart(m)
  \/ \E i \in Items : PreResolveDone(i)
  \/ ExecuteFilter
  \/ \E i \in Items : FilterDone(i)
  \/ ResolveSelected
  \/ \E i \in Items : ResolveMetaDone(i)
  \/ \E i \in Items : ResolveBodyDone(i)
  \/ ExecReturn

StreamNext ==
  \/ \E conc \in (0..MaxConcurrency) \cup {DefaultConcurrency},
        fail \in {{}} \cup {{i} : i \in Items} :
       callId = 0 /\ CoreStreamStart(conc, fail)
  \/ StreamPull
  \/ StreamFilterDone
  \/ StreamMetaDone
  \/ StreamBodyDone
  \/ ConsumerNext
  \/ ConsumerStop

\* a collection-based builder alone
CoreOnlyInit == CoreInit /\ PiqInit /\ PatIdle /\ FmIdle /\ ExIdle

\* the collection-based builder with exec() and single().exec()
SpecCoreExec == CoreOnlyInit /\ [][BuilderNext \/ ExecNext]_vars

\* the collection-based builder, configured and then streamed once
StreamBuilderNext == callId = 0 /\ BuilderNext

SpecCoreStream == CoreOnlyInit /\ [][StreamBuilderNext \/ StreamNext]_vars

\* the collection-based builder configured and executed, then, as it stands
\* after its last exec(), streamed to the end
ExecBuilderNext == callId < MaxExecCalls /\ BuilderNext

StreamAfterExecNext ==
  \/ callId = MaxExecCalls /\ mode = "exec" /\ outcome = "rows" /\ CoreStreamStart(1, {})
  \/ StreamPull
  \/ StreamFilterDone
  \/ StreamMetaDone
  \/ StreamBodyDone
  \/ ConsumerNext

SpecCoreBoth ==
  CoreOnlyInit /\ [][ExecBuilderNext \/ ExecNext \/ StreamAfterExecNext]_vars

\* the resolver-based builder over the same content
PiqitInit == CoreInit /\ hasMetaResolver = TRUE /\ PiqInit /\ PatIdle /\ FmIdle /\ ExIdle

SpecPiqit == PiqitInit /\ [][PiqNext]_vars

\* round trips through the two pattern compilers, over fixed content
PatternInit ==
  /\ CoreInit /\ hasMetaResolver = TRUE
  /\ meta = [i \in Items |-> [status |-> "draft", lang |-> "en"]]
  /\ PiqInit /\ PatInit /\ FmIdle /\ ExIdle

SpecPattern == PatternInit /\ [][PatNext]_vars

MatchInit ==
  /\ CoreInit /\ hasMetaResolver = TRUE
  /\ meta = [i \in Items |-> [status |-> "draft", lang |-> "en"]]
  /\ PiqInit /\ PieceInit /\ FmIdle /\ ExIdle

SpecMatch == MatchInit /\ [][MatchNext]_vars

FrontmatterInit ==
  /\ CoreInit /\ hasMetaResolver = TRUE
  /\ meta = [i \in Items |-> [status |-> "draft", lang |-> "en"]]
  /\ PiqInit /\ PatIdle /\ FmInit /\ ExIdle

SpecFrontmatter == FrontmatterInit /\ [][FmNext]_vars

ExpandInit ==
  /\ CoreInit /\ hasMetaResolver = TRUE
  /\ meta = [i \in Items |-> [status |-> "draft", lang |-> "en"]]
  /\ PiqInit /\ PatIdle /\ FmIdle /\ ExInit

SpecExpand == ExpandInit /\ [][ExExpand]_vars

ScanInit ==
  /\ CoreInit /\ hasMetaResolver = TRUE
  /\ meta = [i \in Items |-> [status |-> "draft", lang |-> "en"]]
  /\ PiqInit /\ ScanPatInit /\ FmIdle /\ ExIdle

\* patterns compiled, then directories enumerated with them
SpecScan == ScanInit /\ [][ScanNext]_vars

(***************************************************************************)
(* Properties                                                              *)
(***************************************************************************)

\* C1: exec() returns its rows in the original enumeration order, whatever
\* order the per-item resolutions (the filter phase's meta reads included)
\* complete in: of two returned rows, the one enumerated first comes first.
C1_ExecEnumerationOrder ==
  (pc = "idle" /\ mode = "exec" /\ outcome = "rows") =>
     \A a, b \in 1..Len(lastResult) :
        a < b => IndexOf(paths, lastResult[a].path) < IndexOf(paths, lastResult[b].path)

\* C4: at every moment of a stream() call the number of item resolutions in
\* flight is at most the concurrency limit the caller gave.
C4_InFlightWithinLimit == mode = "stream" => inflight <= concurrency

C4_Witness ==
  /\ mode = "stream" /\ pc \in {"s_filter", "s_meta", "s_body"}
  /\ concurrency = 1 /\ inflight = concurrency
  /\ scanIdx < Len(paths)

\* C5: the meta cache of an exec() call is owned by that call and torn down
\* when it completes: none is left on the builder between calls, and no call
\* reads a value that an earlier call cached.
C5_CacheOwnedByCall ==
  /\ pc = "idle" => metaCache = None
  /\ ~staleRead

\* C6: select() does not change the builder it was called on: the selection
\* a held reference carries is the same after the call as before.
C6_SelectKeepsReceiver ==
  [][(\E spec \in SelectArgs : CoreSelect(spec)) => selectSpec' = selectSpec]_vars

\* C9: successive search calls, and successive filter calls, merge into the
\* accumulated constraint map, the later call winning on a shared key.
C9_ConstraintsMerge ==
  [][/\ \A c \in SearchArgs :
          (CoreSearch(c) /\ IsSome(searchConstraints) /\ searchConstraints # Some(Wildcard))
             => searchConstraints' = Some(Spread(Get(searchConstraints), c))
     /\ \A c \in FilterArgs :
          (CoreFilter(c) /\ hasMetaResolver /\ IsSome(filterConstraints))
             => filterConstraints' = Some(Spread(Get(filterConstraints), c))]_vars

\* a resolver is called for every item the stream pulls
StreamResolves == StageAfter("acquire") # "s_yield"

\* C10: an item whose resolution fails during stream() ends the stream with
\* its error: no row is yielded for it, the enumeration is not pulled past it,
\* and the call the generator left at that item ended by throwing.
C10_StreamErrorPropagates ==
  (mode = "stream" /\ StreamResolves) =>
     \A i \in failing \cap SeqToSet(paths) :
        /\ \A k \in 1..Len(lastResult) : lastResult[k].path # i
        /\ scanIdx <= IndexOf(paths, i)
        /\ (pc = "idle" /\ cur = i) => outcome = "threw"

C10_Witness ==
  /\ mode = "stream" /\ outcome = "threw" /\ pc = "idle"
  /\ cur \in failing
  /\ Len(lastResult) >= 1
  /\ scanIdx < Len(paths)

\* two entries of a list of expanded paths end in the same segment
SameFinalSegment(expanded) ==
  \E a, b \in 1..Len(expanded) :
     a # b /\ getFieldName(expanded[a]) = getFieldName(expanded[b])

\* C2: flattening a bare-path selection whose expanded paths hold two entries
\* with the same final segment is rejected with a collision error, also when
\* the collision appears only once the wildcards are expanded against the row.
C2_CollisionRejected ==
  (pqTarget # 0 /\ IsSome(builders[pqTarget].selectPaths)) =>
     \A k \in 1..Len(pqRaw) :
        SameFinalSegment(expandWildcards(Get(builders[pqTarget].selectPaths), pqRaw[k]))
           => pqOutcome = "SelectionCollisionError"

\* C3: a consumer that takes exactly one row from stream() and then stops
\* has not made the whole enumeration resolve: of an enumeration of more than
\* one item, some item's file was never read.
C3_StreamStopLeavesRest ==
  (pqMode = "stream" /\ pqOutcome = "returned" /\ Len(pqGiven) = 1
      /\ Cardinality(pqEnum) > 1) =>
     pqResolved # pqEnum

\* C8: the strict single form returns a row only when the query yields
\* exactly one row; it raises on zero rows and on more than one row.
C8_StrictSingle ==
  (pqMode = "execOrThrow" /\ pqOutcome # "Error: No select specified") =>
     /\ Len(pqRows) = 0 => pqOutcome = "Error: Query returned no results"
     /\ Len(pqRows) > 1 => pqOutcome \notin {"row", "Error: Query returned no results"}
     /\ pqOutcome = "row" => Len(pqRows) = 1

\* C7: for every pattern and every params record that satisfies it, matching
\* the path that build makes of the params gives back exactly the params.
C7_RoundTrip == patPc = "matched" => patMatched = Some(patParams)

\* two required parameters stand side by side in the pattern, no literal between
AdjacentParams(pattern) ==
  LET tokens == tokenize(pattern)
  IN \E i \in 1..(Len(tokens) - 1) :
        /\ tokens[i].type = "param" /\ tokens[i].paramType = "required"
        /\ tokens[i + 1].type = "param" /\ tokens[i + 1].paramType = "required"

\* C11: a pattern with two adjacent unconstrained parameters and no literal
\* between them fails to compile: no matcher built from such a pattern is
\* ever used to build or match.
C11_AdjacentParamsRejected ==
  patPc \in {"built", "matched"} => ~AdjacentParams(patPattern)

\* C12: when exec() runs with filter constraints, the Meta of every enumerated
\* item has been resolved exactly once by the time the call returns.
C12_MetaResolvedOnce ==
  [][ExecReturn /\ IsSome(filterConstraints) /\ hasMetaResolver
       => \A i \in SeqToSet(paths) : metaReads[i] = 1]_vars

\* C13: when exec() runs with filter constraints, the rows it returns are for
\* exactly the enumerated items whose Meta equals the constraint on every
\* filter key.
C13_FilterExact ==
  [][ExecReturn /\ mode = "exec" /\ IsSome(filterConstraints) /\ hasMetaResolver
       => {lastResult'[k].path : k \in 1..Len(lastResult')}
            = {i \in SeqToSet(paths) : matchesFilter(meta[i], filterKeys)}]_vars

\* C14: a terminal call on a builder on which select() was never called fails
\* with a configuration error: exec() never returns rows for such a builder.
C14_NoSelectRejected ==
  [][ExecReturn /\ selectSpec = None => outcome' \notin {"rows", "row"}]_vars

\* C15: filter() on a collection without a MetaResolver fails at the call:
\* the call raises the error and stores no constraints, so nothing is left
\* to fail when the query runs.
C15_FilterFailsAtCall ==
  [][(\E c \in FilterArgs : CoreFilter(c)) /\ ~hasMetaResolver
       => /\ outcome' = "Error: Cannot use filter() without a metaResolver"
          /\ filterConstraints' = None]_vars

C15_Witness ==
  /\ ~hasMetaResolver
  /\ outcome = "Error: Cannot use filter() without a metaResolver"
  /\ filterConstraints = None

\* C16: the rows exec() returns carry extracted Params only when the selection
\* names a Params field, and a resolved Body only when it names a Body field.
C16_OnlySelectedFacets ==
  [][ExecReturn
       => \A k \in 1..Len(lastResult') :
             /\ lastResult'[k].search # EmptyMap => selectSearchKeys # {}
             /\ lastResult'[k].body # None => selectBodyKeys # {}]_vars

\* the names a successful match must bind to a separator-free value: the
\* required parameters of path-pattern.ts, every placeholder of markdown.ts
SegmentParams ==
  IF patImpl = "core"
  THEN LET ps == compilePattern(patPattern).params
       IN {ps[k].name : k \in {j \in 1..Len(ps) : ps[j].type = "required"}}
  ELSE SeqToSet(mdParamNames(patPattern))

\* C17: in every successful match each required or constrained parameter
\* holds a non-empty value without a path separator.
C17_CapturesStayInSegment ==
  (patPc = "matchedPath" /\ patMatched # None)
    => \A n \in SegmentParams \cap DOMAIN Get(patMatched) :
          /\ Get(patMatched)[n] # <<>>
          /\ "/" \notin SeqToSet(Get(patMatched)[n])

\* a brace the compiler in use did not take for part of a placeholder: it sits
\* in a literal token of tokenize, or in the escaped literal text of markdown.ts
StrayBrace ==
  LET InLiteral(chars) == "{" \in SeqToSet(chars) \/ "}" \in SeqToSet(chars)
      tokens == tokenize(patPattern)
      pieces == mdRegexFrom(patPattern, <<>>)
  IN IF patImpl = "core"
     THEN \E i \in 1..Len(tokens) : tokens[i].type = "literal" /\ InLiteral(tokens[i].value)
     ELSE \E i \in 1..Len(pieces) : pieces[i].k = "lit" /\ InLiteral(pieces[i].s)

\* C18: a pattern with malformed placeholder syntax is rejected when it is
\* compiled: no compiled pattern has a brace left over as literal text.
C18_MalformedRejected ==
  patPc \in {"compiled", "matchedPath"} => ~StrayBrace

\* the file opens a block on its first line and no later line closes it
Unclosed(content) ==
  /\ hasFrontmatterAtStart(content)
  /\ \A j \in 2..Len(content) : content[j] # Fence

\* C19: resolving the Meta of a file without a facet block gives the empty
\* object, and of a file whose block is opened and never closed gives the
\* malformed-block error, never the empty object of an absent block.
C19_CorruptNotAbsent ==
  (fmOut # None /\ Get(fmOut).call = "resolve")
    => /\ Fence \notin SeqToSet(fmContent)
            => Get(fmOut).outcome = "value" /\ Get(fmOut).value = EmptyMap
       /\ Unclosed(fmContent) => Get(fmOut).outcome = "FrontmatterParseError"

\* the optional parameters of the pattern in play
OptionalParams ==
  LET ps == compilePattern(patPattern).params
  IN {ps[k].name : k \in {j \in 1..Len(ps) : ps[j].type = "optional"}}

\* C20: a pattern with an optional parameter matches the path built with the
\* optional segment and the path built without it, and the result has the
\* parameter's key exactly when the segment is there.
C20_OptionalBothWays ==
  (patPc = "matched" /\ patImpl = "core" /\ OptionalParams # {})
    => /\ patMatched # None
       /\ \A o \in OptionalParams : o \in DOMAIN Get(patMatched) <=> o \in DOMAIN patParams

\* the placeholders of the pattern in play that carry the constraint \d+
DigitParams ==
  LET phs == mdPlaceholders(patPattern)
  IN {phs[k].name : k \in {j \in 1..Len(phs) : phs[j].constraint = Some(<<"\\", "d", "+">>)}}

\* C21: a match of a pattern with a parameter constrained to \d+ binds that
\* parameter, under its name, to a non-empty run of digits.
C21_ConstraintHolds ==
  (patPc = "matchedPath" /\ patMatched # None)
    => \A n \in DigitParams :
          /\ n \in DOMAIN Get(patMatched)
          /\ Get(patMatched)[n] # <<>>
          /\ SeqToSet(Get(patMatched)[n]) \subseteq Digits

\* C22: the validation regex of a pattern accepts a path exactly when the
\* capturing regex of the same pattern accepts it.
C22_ValidationEquivalent ==
  patPc = "validated"
    => (Get(patValid) <=> RegexTest(compilePattern(patPattern).regex, Get(patPath)))

\* C23: expanding an expanded path list gives the same list.
C23_ExpandIdempotent ==
  Len(exOut) = 2 => exOut[2] = exOut[1]

C23_Witness ==
  /\ Len(exOut) = 2
  /\ exOut[1] # exPaths /\ Len(exOut[1]) > Len(exPaths)
  /\ exOut[2] = exOut[1]

\* the parameter names the compiled pattern in play carries, in order
CompiledNames == CompiledNamesOf(patImpl, patPattern)

\* C24: no compiled pattern carries two parameters with the same name.
C24_NamesUnique ==
  patPc \in {"compiled", "matchedPath", "validated"}
    => \A i, j \in 1..Len(CompiledNames) : i # j => CompiledNames[i] # CompiledNames[j]
\* the stream is over: exhausted, left by an error, or stopped by the consumer
StreamEnded == mode = "stream" /\ pc = "idle" /\ outcome \in {"done", "threw", "returned"}

\* C25: in stream() every slot acquired is released exactly once, whichever way
\* the item leaves the loop: free slots plus slots held always add up to the
\* limit, and once the stream has ended every slot is free again.
C25_SlotsReleased ==
  mode = "stream"
    => /\ permits + inflight = concurrency
       /\ StreamEnded => (permits = concurrency /\ inflight = 0 /\ queue = <<>>)

\* the consumer stopped early, after an earlier item had gone through the loop,
\* and all slots are free
C25_Witness ==
  /\ StreamEnded /\ outcome = "returned"
  /\ concurrency = 1 /\ permits = 1
  /\ scanIdx >= 2 /\ scanIdx < Len(paths)

\* C26: every identifier search()/scan() enumerates is one the pattern
\* matcher accepts: extractParams on an enumerated identifier never throws.
C26_EnumeratedExtractable == ~(patListed = Some(TRUE) /\ patPc = "threw")

\* C27: every item returned under scan constraints carries, for each
\* constrained parameter, an extracted value equal to the constraint's.
C27_ConstraintsHonoured ==
  (patPc \in {"extracted", "resolved"} /\ patListed = Some(TRUE) /\ IsSome(patConstraints))
    => /\ IsSome(patMatched)
       /\ matchesConstraints(Get(patMatched), Get(patConstraints))

\* what the compiler in play extracts from the path in play
MatchInPlay ==
  IF patImpl = "core" THEN matchPattern(compilePattern(patPattern), Get(patPath))
  ELSE mdMatch(patPattern, Get(patPath))

\* the glob the compiler in play makes of the constraints in play
GlobInPlay ==
  IF patImpl = "core" THEN patternToGlob(patPattern, patConstraints)
  ELSE mdToGlob(patPattern, patConstraints)

\* C28: the glob never excludes a matching item: a path the pattern matches
\* with parameters consistent with the scan constraints is matched by
\* toGlob(constraints).
C28_GlobCoversMatches ==
  (/\ patPc \in {"searched", "resolved"}
   /\ IsSome(MatchInPlay)
   /\ IsSome(patConstraints) => matchesConstraints(Get(MatchInPlay), Get(patConstraints)))
    => GlobMatch(GlobInPlay, Get(patPath))

\* the rows of a list, each with the number of times it occurs
RowCounts(rs) ==
  [r \in SeqToSet(rs) |-> Cardinality({k \in 1..Len(rs) : rs[k] = r})]

\* C29: stream() consumed to the end yields exactly the rows exec() returned
\* on the same builder over the same content, each as many times.
C29_StreamEqualsExec ==
  (StreamEnded /\ outcome = "done" /\ IsSome(execResult))
    => RowCounts(lastResult) = RowCounts(Get(execResult))

\* the constraints carried by the builder the last select() returned: core's
\* select() returns the receiver, so they are the receiver's own fields
ForkConstraints == <<searchConstraints, filterConstraints>>

\* C30: once q2 = q.select(...) has been taken, a later search()/filter() on
\* q leaves the constraints q2 carries as they were.
C30_ForkIsolated ==
  [][(/\ IsSome(selectSpec)
      /\ \/ \E c \in SearchArgs \cup {Wildcard} : CoreSearch(c)
         \/ \E c \in FilterArgs : CoreFilter(c))
       => ForkConstraints' = ForkConstraints]_vars

====
